---------------------------- MODULE Spec2Model ----------------------------
(***************************************************************************)
(* JobiFy: the collector (collect_jobs.py), the dashboard (app.py), the    *)
(* advice call (local_llm.py) and the market digest (market_context.py).   *)
(* Text is modelled as TLA+ strings, read character by character with      *)
(* SubSeq, so substring tests, lowercasing and the regular expressions of  *)
(* the source are computed, not assumed.                                    *)
(***************************************************************************)
EXTENDS Integers, Sequences, FiniteSets, TLC

VARIABLES
    \* is_tech_job called on its own (collect_jobs.py:117)
    title, category, clean_desc, is_tech,
    \* extract_skills called on its own (app.py:42)
    description, found,
    \* the collector, collect_jobs.py
    pc,            \* where fetch_and_save is: "idle", "request", "sleep", "returned", "raised"
    attempt,       \* the loop variable of fetch_with_retry
    requests,      \* requests.get calls issued by the current fetch_with_retry call
    slept,         \* seconds spent in time.sleep by the current fetch_with_retry call
    response,      \* the entries of the downloaded feed
    store,         \* the file DATA_FILE: whether it exists, its header, its rows
    store_before,  \* the file as it was when the current cycle began
    outcome,       \* how the last cycle ended (the message it printed)
    clock,         \* datetime.now(), one tick per cycle
    cycles,        \* fetch_and_save calls so far
    \* one run of the dashboard script, app.py main()
    at,            \* where main() is: "load", "extract", "select", "pass", "sidebar",
                   \* "done"
    df,            \* the rows load_data returned, with their skills once extracted
    selected_domain,
    filtered_df,   \* the rows filter_jobs_by_domain kept
    top_12_skills,
    co_occurrence, \* co_occurrence[a][b]
    posting,       \* how many rows of filtered_df the aggregation pass has done
    ai_query,      \* st.session_state.ai_query
    ai_response,   \* st.session_state.ai_response
    llm_result,    \* what the call of ask_llm did: "not called", "ok", or the exception
                   \* requests raised
    shown,         \* the st.error / st.warning / st.success messages on the page
    exception      \* the exception that ended the run unhandled, "" when none

classifyVars == <<title, category, clean_desc, is_tech>>
extractVars == <<description, found>>
collectVars == <<pc, attempt, requests, slept, response, store, store_before, outcome,
                 clock, cycles>>
dashVars == <<at, df, selected_domain, filtered_df, top_12_skills, co_occurrence, posting,
              ai_query, ai_response, llm_result, shown, exception>>
\* what the steps of one component leave alone: the other components
notClassify == <<extractVars, collectVars, dashVars>>
notExtract == <<classifyVars, collectVars, dashVars>>
notCollect == <<classifyVars, extractVars, dashVars>>
notDash == <<classifyVars, extractVars, collectVars>>
vars == <<title, category, clean_desc, is_tech, description, found,
          pc, attempt, requests, slept, response, store, store_before, outcome,
          clock, cycles,
          at, df, selected_domain, filtered_df, top_12_skills, co_occurrence, posting,
          ai_query, ai_response, llm_result, shown, exception>>

\* ------------------------------------------------------------------ text

Range(s) == {s[i] : i \in 1..Len(s)}

CharAt(s, i) == SubSeq(s, i, i)

UPPER == "ABCDEFGHIJKLMNOPQRSTUVWXYZ"
LOWER == "abcdefghijklmnopqrstuvwxyz"
DIGITS == "0123456789"

Chars(s) == {CharAt(s, i) : i \in 1..Len(s)}

UPPER_CHARS == Chars(UPPER)
WORD_CHARS == Chars(LOWER) \cup Chars(UPPER) \cup Chars(DIGITS) \cup {"_"}

\* str.lower() on one character
LowerChar(c) ==
    IF c \in UPPER_CHARS
    THEN CharAt(LOWER, CHOOSE i \in 1..Len(UPPER) : CharAt(UPPER, i) = c)
    ELSE c

RECURSIVE Lowercase(_)
\* str.lower()
Lowercase(s) ==
    IF s = "" THEN "" ELSE LowerChar(CharAt(s, 1)) \o Lowercase(SubSeq(s, 2, Len(s)))

\* Python's `needle in haystack` on strings
Contains(haystack, needle) ==
    \E i \in 1..(Len(haystack) + 1) :
        /\ i + Len(needle) - 1 <= Len(haystack)
        /\ SubSeq(haystack, i, i + Len(needle) - 1) = needle

\* ------------------------------------------------- collect_jobs.py: classifier

TECH_KEYWORDS == <<
    "software engineer", "backend", "frontend", "full stack", "python", "java",
    "golang", "node", "django", "flask", "fastapi", "devops", "sre",
    "kubernetes", "docker", "terraform", "aws", "gcp", "azure",
    "machine learning", "ml", "ai" >>

NON_TECH_KEYWORDS == <<
    "support", "customer", "sales", "marketing", "recruiter", "designer",
    "content", "writer", "hr", "finance", "legal", "assistant" >>

ALLOWED_CATEGORIES == <<
    "Back-End Programming", "Front-End Programming", "Full-Stack Programming",
    "Software Engineering", "Web Development", "Application Development",
    "DevOps and Sysadmin", "Cloud Infrastructure", "Site Reliability Engineering",
    "Platform Engineering", "Infrastructure Engineering",
    "AI / Machine Learning", "Data Engineering", "Data Science",
    "Applied Machine Learning", "MLOps",
    "Quality Assurance", "Test Automation", "Software Testing",
    "Mobile Development", "iOS Development", "Android Development",
    "Cross-Platform Development",
    "Security Engineering", "Application Security", "Cloud Security", "DevSecOps",
    "Systems Programming", "Embedded Systems", "Firmware Development",
    "Operating Systems",
    "Distributed Systems", "Microservices" >>

\* text = f"{title} {description}".lower()
JobText(t, d) == Lowercase(t \o " " \o d)

\* a bug the comment at collect_jobs.py:124 invites: "allowed OR keyword"
is_tech_job_or(t, c, d) ==
    LET text == JobText(t, d) IN
    IF \E w \in Range(NON_TECH_KEYWORDS) : Contains(text, w)
    THEN FALSE
    ELSE LET category_ok == c \in Range(ALLOWED_CATEGORIES)
             keyword_ok == \E w \in Range(TECH_KEYWORDS) : Contains(text, w)
         IN  category_ok \/ keyword_ok

is_tech_job(t, c, d) ==
    LET text == JobText(t, d) IN
    IF \E w \in Range(NON_TECH_KEYWORDS) : Contains(text, w)
    THEN FALSE
    ELSE LET category_ok == c \in Range(ALLOWED_CATEGORIES)
             keyword_ok == \E w \in Range(TECH_KEYWORDS) : Contains(text, w)
         IN  category_ok /\ keyword_ok

\* Inputs of the classifier run on its own.
ClassifyTitles == {
    "Senior Python Developer", "Backend Engineer", "Office Manager",
    "Customer Support Engineer", "Chrome Extension Developer", "Full",
    "Data Analyst", "" }

ClassifyDescriptions == {
    "", "We use Django and AWS", "Sales experience required", "Stack role",
    "Great team", "Keep the KUBERNETES cluster up" }

ClassifyCategories == {
    "Back-End Programming", "DevOps and Sysadmin", "Uncategorized",
    "back-end programming", "All Other Remote" }

InitClassify ==
    /\ title \in ClassifyTitles
    /\ category \in ClassifyCategories
    /\ clean_desc \in ClassifyDescriptions
    /\ is_tech = << >>

\* is_tech holds the returned value once the call has returned
Classify ==
    /\ is_tech = << >>
    /\ is_tech' = <<is_tech_job(title, category, clean_desc)>>
    /\ UNCHANGED <<title, category, clean_desc>>
    /\ UNCHANGED notClassify

\* ------------------------------------------------------ app.py: vocabulary

\* A Python value that may or may not be a str: a description read back from
\* the store is a str, or the float nan when the cell was empty; the spec's
\* examples also pass None and an int.
PyStr(s) == [type |-> "str", val |-> s]
PyNaN == [type |-> "float", val |-> "nan"]
PyNone == [type |-> "NoneType", val |-> "None"]
PyInt123 == [type |-> "int", val |-> "123"]
IsStr(v) == v.type = "str"

DOMAIN_NAMES == <<
    "All Domains", "Frontend Development", "Backend Development", "Full Stack",
    "DevOps/Cloud", "Data Science/ML", "Mobile Development" >>

DOMAIN_SKILLS == [d \in Range(DOMAIN_NAMES) |->
    CASE d = "All Domains" -> << >>
      [] d = "Frontend Development" ->
            <<"react", "vue", "angular", "next.js", "typescript", "javascript",
              "html", "css", "tailwind">>
      [] d = "Backend Development" ->
            <<"python", "java", "golang", "rust", "node", "django", "flask",
              "spring", "fastapi">>
      [] d = "Full Stack" ->
            <<"react", "node", "python", "typescript", "django", "next.js",
              "flask", "vue">>
      [] d = "DevOps/Cloud" ->
            <<"aws", "azure", "gcp", "docker", "kubernetes", "terraform",
              "jenkins", "linux", "ansible">>
      [] d = "Data Science/ML" ->
            <<"python", "pytorch", "tensorflow", "pandas", "sql", "spark",
              "scikit-learn">>
      [] d = "Mobile Development" ->
            <<"react native", "flutter", "swift", "kotlin", "ios", "android">>]

FLAT_SKILLS == <<
    "python", "java", "javascript", "typescript", "golang", "rust", "c++", "ruby",
    "php", "swift", "kotlin", "sql",
    "react", "node", "django", "flask", "fastapi", "spring", "vue", "angular",
    "next.js", "rails", "pytorch", "tensorflow",
    "aws", "azure", "gcp", "docker", "kubernetes", "terraform", "jenkins", "linux",
    "ansible",
    "postgresql", "mysql", "mongodb", "redis", "elasticsearch", "dynamodb" >>

\* ---------------------------------------------------- app.py: extract_skills

\* \w of Python's re on str: letters, digits and the underscore
IsWordChar(c) == c \in WORD_CHARS

\* \s of Python's re
IsSpaceChar(c) == c \in {" ", "\t", "\n", "\r"}

RECURSIVE SubNonWord(_)
\* re.sub(r'[^\w\s]', ' ', text)
SubNonWord(text) ==
    IF text = "" THEN ""
    ELSE LET c == CharAt(text, 1) IN
         (IF IsWordChar(c) \/ IsSpaceChar(c) THEN c ELSE " ")
             \o SubNonWord(SubSeq(text, 2, Len(text)))

\* text = description.lower(); text = re.sub(r'[^\w\s]', ' ', text)
NormalizeText(s) == SubNonWord(Lowercase(s))

\* whether the character at position p exists and is a word character
WordAt(text, p) == p >= 1 /\ p <= Len(text) /\ IsWordChar(CharAt(text, p))

\* \b just before position p: exactly one neighbour is a word character
WordBoundary(text, p) == WordAt(text, p - 1) # WordAt(text, p)

\* a bug: the closing \b forgotten, so that a term matches as a prefix
SkillSearchNoClosingBoundary(skill, text) ==
    \E i \in 1..(Len(text) + 1) :
        /\ i + Len(skill) - 1 <= Len(text)
        /\ WordBoundary(text, i)
        /\ SubSeq(text, i, i + Len(skill) - 1) = skill

\* re.search(r'\b' + re.escape(skill) + r'\b', text): re.escape makes every
\* character of the term a literal
SkillSearch(skill, text) ==
    \E i \in 1..(Len(text) + 1) :
        /\ i + Len(skill) - 1 <= Len(text)
        /\ WordBoundary(text, i)
        /\ SubSeq(text, i, i + Len(skill) - 1) = skill
        /\ WordBoundary(text, i + Len(skill))

\* the set `found` at the return of extract_skills
FoundSkills(d) ==
    IF ~IsStr(d) THEN {}
    ELSE LET text == NormalizeText(d.val) IN
         {skill \in Range(FLAT_SKILLS) : SkillSearch(skill, text)}

\* The tuples holding each element of S once.
Orderings(S) ==
    {p \in [1..Cardinality(S) -> S] : \A i, j \in 1..Cardinality(S) : p[i] = p[j] => i = j}

RECURSIVE InOrderOf(_, _)
\* the elements of S in the order of the tuple seq
InOrderOf(seq, S) ==
    IF seq = << >> THEN << >>
    ELSE (IF Head(seq) \in S THEN <<Head(seq)>> ELSE << >>) \o InOrderOf(Tail(seq), S)

Reverse(seq) == [i \in 1..Len(seq) |-> seq[Len(seq) + 1 - i]]

\* list(found): a set of str iterates in an order that depends on the hash
\* seed of the process, so every order can be produced. Sets of more than
\* MaxPermuted elements are listed in two orders only, to keep the choice finite.
MaxPermuted == 3

ListOfSet(S) ==
    IF Cardinality(S) <= MaxPermuted THEN Orderings(S)
    ELSE {InOrderOf(FLAT_SKILLS, S), Reverse(InOrderOf(FLAT_SKILLS, S))}

\* the lists extract_skills(description) can return
extract_skills(d) == ListOfSet(FoundSkills(d))

\* Inputs of the extractor run on its own: up to MaxTokens tokens joined by
\* separators, the two sentences of the specification, and each vocabulary term
\* as a description of its own.
MaxTokens == 2

ExtractTokens == {"java", "script", "Python", "Django", "c++", "next.js"}
ExtractSeparators == {" ", "/", "_", ""}

RECURSIVE TokenTexts(_)
TokenTexts(n) ==
    IF n = 0 THEN {""}
    ELSE IF n = 1 THEN ExtractTokens
    ELSE TokenTexts(n - 1) \cup
         {t \o s \o u : t \in TokenTexts(n - 1), s \in ExtractSeparators, u \in ExtractTokens}

ExtractDescriptions ==
    {PyStr(t) : t \in TokenTexts(MaxTokens) \cup
                      {"", "I use JavaScript daily", "Python/Django stack"}}
        \cup {PyStr(FLAT_SKILLS[k]) : k \in 1..Len(FLAT_SKILLS)}
        \cup {PyNaN, PyNone, PyInt123}

InitExtract ==
    /\ description \in ExtractDescriptions
    /\ found = << >>

\* found holds the returned list once the call has returned
Extract ==
    /\ found = << >>
    /\ \E result \in extract_skills(description) : found' = <<result>>
    /\ UNCHANGED description
    /\ UNCHANGED notExtract

\* -------------------------------------------------- collect_jobs.py: collector

RECURSIVE Strip(_)
\* str.strip()
Strip(s) ==
    IF s = "" THEN ""
    ELSE IF IsSpaceChar(CharAt(s, 1)) THEN Strip(SubSeq(s, 2, Len(s)))
    ELSE IF IsSpaceChar(CharAt(s, Len(s))) THEN Strip(SubSeq(s, 1, Len(s) - 1))
    ELSE s

RECURSIVE TextNodes(_, _, _)
\* the text nodes of a fragment of markup, in order: the runs of characters
\* outside the tags <...> (entities and comments are not modelled)
TextNodes(html, node, inTag) ==
    IF html = "" THEN (IF node = "" THEN << >> ELSE <<node>>)
    ELSE LET c == CharAt(html, 1)
             rest == SubSeq(html, 2, Len(html))
         IN  IF inTag THEN TextNodes(rest, "", c # ">")
             ELSE IF c = "<"
                  THEN (IF node = "" THEN << >> ELSE <<node>>) \o TextNodes(rest, "", TRUE)
                  ELSE TextNodes(rest, node \o c, FALSE)

RECURSIVE JoinWith(_, _)
\* sep.join(parts)
JoinWith(parts, sep) ==
    IF parts = << >> THEN ""
    ELSE IF Len(parts) = 1 THEN parts[1]
    ELSE parts[1] \o sep \o JoinWith(Tail(parts), sep)

\* clean_html: soup.get_text(separator=" ").strip()
clean_html(html_text) ==
    IF html_text = "" THEN "" ELSE Strip(JoinWith(TextNodes(html_text, "", FALSE), " "))

\* the position of the first ":" of s, 0 when there is none
FirstColon(s) ==
    IF Contains(s, ":")
    THEN CHOOSE i \in 1..Len(s) :
            CharAt(s, i) = ":" /\ \A j \in 1..(i - 1) : CharAt(s, j) # ":"
    ELSE 0

\* lines 162-170: the company and the title of an entry; author "" is an entry
\* without author
CompanyAndTitle(entry) ==
    LET raw_title == entry.title
        company == entry.author
        colon == FirstColon(raw_title)
    IN  IF (company = "" \/ company = "Unknown") /\ colon > 0
        THEN [company |-> Strip(SubSeq(raw_title, 1, colon - 1)),
              title |-> Strip(SubSeq(raw_title, colon + 1, Len(raw_title)))]
        ELSE [company |-> IF company # "" THEN company ELSE "Unknown",
              title |-> raw_title]

\* lines 173-178: whether the entry passes the filter
EntryIsTech(entry) ==
    is_tech_job(CompanyAndTitle(entry).title, entry.category, clean_html(entry.summary))

\* lines 180-189: job_data of an entry fetched at time now (published_date and
\* link are columns of the store too; their values play no part here)
JobData(entry, now) ==
    [job_id |-> entry.id,
     title |-> CompanyAndTitle(entry).title,
     company |-> CompanyAndTitle(entry).company,
     category |-> entry.category,
     full_description |-> PyStr(clean_html(entry.summary)),
     fetched_at |-> now]

JOB_COLUMNS == {"job_id", "title", "company", "category", "full_description",
                "published_date", "link", "fetched_at"}

RECURSIVE SelectSeq2(_, _)
\* [x for x in seq if keep[x]], keep a set
SelectSeq2(seq, keep) ==
    IF seq = << >> THEN << >>
    ELSE (IF Head(seq) \in keep THEN <<Head(seq)>> ELSE << >>) \o SelectSeq2(Tail(seq), keep)

\* The entries a feed can hold.
FeedEntries == {
    [id |-> "job-1", title |-> "Acme: Senior Python Developer", author |-> "",
     category |-> "Back-End Programming",
     summary |-> "<p>We use <b>Django</b> and AWS</p>", has_published |-> TRUE],
    [id |-> "job-2", title |-> "Backend Engineer", author |-> "Globex",
     category |-> "DevOps and Sysadmin", summary |-> "", has_published |-> TRUE],
    [id |-> "job-3", title |-> "Initech: Customer Support Engineer", author |-> "Unknown",
     category |-> "Back-End Programming", summary |-> "<p>Python</p>",
     has_published |-> TRUE],
    [id |-> "job-4", title |-> "Golang Developer", author |-> "Hooli",
     category |-> "Back-End Programming", summary |-> "<p>Go services</p>",
     has_published |-> FALSE] }

\* what lines 161-190 compute for each entry, whatever the feed it comes in
EntryVerdict == [e \in FeedEntries |-> EntryIsTech(e)]
EntryJob == [e \in FeedEntries |-> JobData(e, 0)]

\* lines 159-190: new_jobs, or the AttributeError of a kept entry that has no
\* `published`
NewJobs(feed, now) ==
    LET tech == SelectSeq2(feed, {e \in Range(feed) : EntryVerdict[e]}) IN
    IF \E e \in Range(tech) : ~e.has_published
    THEN [raised |-> TRUE, jobs |-> << >>]
    ELSE [raised |-> FALSE,
          jobs |-> [i \in 1..Len(tech) |-> [EntryJob[tech[i]] EXCEPT !.fetched_at = now]]]

\* pandas.read_csv on one text cell: an empty cell is read as the float nan
ReadCsvCell(text) == IF text = "" THEN PyNaN ELSE PyStr(text)

\* DataFrame.to_csv on one cell: nan is written as the empty cell
ToCsvCell(v) == IF IsStr(v) THEN v.val ELSE ""

\* a row of the file as pandas.read_csv returns it
ReadCsvRow(r) == [r EXCEPT !.full_description = ReadCsvCell(r.full_description)]

\* a row of a DataFrame as DataFrame.to_csv writes it, stamped with `now`
ToCsvRow(r, now) ==
    [job_id |-> r.job_id, title |-> r.title, company |-> r.company,
     category |-> r.category, full_description |-> ToCsvCell(r.full_description),
     fetched_at |-> r.fetched_at, dataset_last_updated_utc |-> now]

NoStore == [exists |-> FALSE, columns |-> {}, rows |-> << >>]

\* line 202: unique_jobs
UniqueJobs(new_jobs, existing_ids) ==
    SelectSeq2(new_jobs, {j \in Range(new_jobs) : j.job_id \notin existing_ids})

\* lines 194-218: the file after the database logic, or the exception it raises
SaveJobs(file, new_jobs, now) ==
    IF file.exists /\ "job_id" \notin file.columns
    THEN [raised |-> TRUE, written |-> FALSE, store |-> file]      \* KeyError: 'job_id'
    ELSE
    LET existing_df == [i \in 1..Len(file.rows) |-> ReadCsvRow(file.rows[i])]
        existing_ids == {existing_df[i].job_id : i \in 1..Len(existing_df)}
        unique_jobs == UniqueJobs(new_jobs, existing_ids)
        updated_df == existing_df \o unique_jobs
    IN  IF unique_jobs # << >>
        THEN [raised |-> FALSE, written |-> TRUE, store |->
                [exists |-> TRUE,
                 columns |-> file.columns \cup JOB_COLUMNS \cup {"dataset_last_updated_utc"},
                 rows |-> [i \in 1..Len(updated_df) |-> ToCsvRow(updated_df[i], now)]]]
        ELSE [raised |-> FALSE, written |-> TRUE, store |->
                [exists |-> TRUE,
                 columns |-> file.columns \cup {"dataset_last_updated_utc"},
                 rows |-> [i \in 1..Len(existing_df) |-> ToCsvRow(existing_df[i], now)]]]

\* fetch_with_retry(url, retries=3, backoff=5)
RETRIES == 3
BACKOFF == 5

\* a bug: the retry test off by one, so that the last failure sleeps too
WillRetryOffByOne(a) == a < RETRIES

\* line 145: whether a failed attempt is followed by another one
WillRetry(a) == a < RETRIES - 1

\* a bug: the handler refreshes the dataset timestamp as the "no new jobs"
\* branch does
ExceptHandlerStampsStore(file, now, e) ==
    [store |-> [file EXCEPT !.rows = [i \in 1..Len(file.rows) |->
                    [file.rows[i] EXCEPT !.dataset_last_updated_utc = now]]],
     outcome |-> [status |-> "critical_error", details |-> e]]

\* lines 221-222: except Exception catches e, prints "CRITICAL ERROR" with e as
\* the details, and the cycle ends
ExceptHandler(file, now, e) ==
    [store |-> file, outcome |-> [status |-> "critical_error", details |-> e]]

\* The feeds a download can return, and the cycles run.
MaxFeed == 2
MaxCycles == 2

Feeds == UNION {[1..n -> FeedEntries] : n \in 0..MaxFeed}

\* a store written by an earlier cycle
SeededStore ==
    [exists |-> TRUE,
     columns |-> JOB_COLUMNS \cup {"dataset_last_updated_utc"},
     rows |-> <<[job_id |-> "job-2", title |-> "Backend Engineer", company |-> "Globex",
                 category |-> "DevOps and Sysadmin", full_description |-> "",
                 fetched_at |-> 0, dataset_last_updated_utc |-> 0]>>]

\* the collector before its first cycle, beside the file `file`
CollectAt(file) ==
    /\ pc = "idle"
    /\ attempt = 0
    /\ requests = 0
    /\ slept = 0
    /\ response = << >>
    /\ store = file
    /\ store_before = file
    /\ outcome = [status |-> "none", details |-> ""]
    /\ clock = 0
    /\ cycles = 0

InitCollect == \E file \in {NoStore, SeededStore} : CollectAt(file)

\* fetch_and_save is called: line 152, then fetch_with_retry starts its loop
StartCycle ==
    /\ pc = "idle"
    /\ cycles < MaxCycles
    /\ cycles' = cycles + 1
    /\ clock' = clock + 1
    /\ pc' = "request"
    /\ attempt' = 0
    /\ requests' = 0
    /\ slept' = 0
    /\ store_before' = store
    /\ outcome' = [status |-> "running", details |-> ""]
    /\ UNCHANGED <<response, store>>
    /\ UNCHANGED notCollect

\* lines 140-142: the request succeeds and the response is returned
RequestSucceeds ==
    /\ pc = "request"
    /\ requests' = requests + 1
    /\ \E feed \in Feeds : response' = feed
    /\ pc' = "returned"
    /\ UNCHANGED <<attempt, slept, store, store_before, outcome, clock, cycles>>
    /\ UNCHANGED notCollect

\* lines 143-149: the request raises a RequestException (connection error,
\* timeout, HTTP error status)
RequestFails ==
    /\ pc = "request"
    /\ requests' = requests + 1
    /\ pc' = IF WillRetry(attempt) THEN "sleep" ELSE "raised"
    /\ UNCHANGED <<attempt, slept, response, store, store_before, outcome, clock, cycles>>
    /\ UNCHANGED notCollect

\* line 147, and the next turn of the loop of line 137; a loop that ends
\* returns None, and line 157 raises on it
Sleep ==
    /\ pc = "sleep"
    /\ slept' = slept + BACKOFF
    /\ attempt' = attempt + 1
    /\ pc' = IF attempt + 1 < RETRIES THEN "request" ELSE "raised"
    /\ UNCHANGED <<requests, response, store, store_before, outcome, clock, cycles>>
    /\ UNCHANGED notCollect

\* lines 157-218 after a successful download, with the handler of line 221
ProcessFeed ==
    /\ pc = "returned"
    /\ LET parsed == NewJobs(response, clock)
           saved == SaveJobs(store, parsed.jobs, clock)
           e == IF parsed.raised THEN "AttributeError" ELSE "KeyError"
       IN  IF parsed.raised \/ saved.raised
           THEN /\ store' = ExceptHandler(store, clock, e).store
                /\ outcome' = ExceptHandler(store, clock, e).outcome
           ELSE /\ store' = saved.store
                /\ outcome' = [status |-> IF Len(saved.store.rows) > Len(store.rows)
                                          THEN "added" ELSE "timestamp_updated",
                               details |-> ""]
    /\ pc' = "idle"
    /\ UNCHANGED <<attempt, requests, slept, response, store_before, clock, cycles>>
    /\ UNCHANGED notCollect

\* lines 221-222 after fetch_with_retry raised (line 149), or returned None and
\* line 157 raised on it
FetchFailed ==
    /\ pc = "raised"
    /\ store' = ExceptHandler(store, clock, "RequestException").store
    /\ outcome' = ExceptHandler(store, clock, "RequestException").outcome
    /\ pc' = "idle"
    /\ UNCHANGED <<attempt, requests, slept, response, store_before, clock, cycles>>
    /\ UNCHANGED notCollect

\* ------------------------------------------------------- app.py: the dashboard

\* Counter(all_skills).most_common(12)
TOP_N == 12

\* the distinct elements of seq in the order of their first occurrence: the
\* insertion order of Counter(seq)
RECURSIVE FirstOccurrences(_, _)
FirstOccurrences(seq, seen) ==
    IF seq = << >> THEN << >>
    ELSE IF Head(seq) \in seen THEN FirstOccurrences(Tail(seq), seen)
    ELSE <<Head(seq)>> \o FirstOccurrences(Tail(seq), seen \cup {Head(seq)})

CountOf(x, seq) == Cardinality({i \in 1..Len(seq) : seq[i] = x})

\* x put into the keys `sorted` (largest count first) behind every key whose
\* count is not smaller: sorted() is stable
InsertByCount(sorted, x, seq) ==
    LET p == Cardinality({i \in 1..Len(sorted) : CountOf(sorted[i], seq) >= CountOf(x, seq)})
    IN  SubSeq(sorted, 1, p) \o <<x>> \o SubSeq(sorted, p + 1, Len(sorted))

RECURSIVE SortByCount(_, _)
SortByCount(keys, seq) ==
    IF keys = << >> THEN << >>
    ELSE InsertByCount(SortByCount(SubSeq(keys, 1, Len(keys) - 1), seq), keys[Len(keys)], seq)

\* [s for s, _ in Counter(seq).most_common(n)]: by count, largest first, equal
\* counts in insertion order
MostCommon(seq, n) ==
    LET sorted == SortByCount(FirstOccurrences(seq, {}), seq)
    IN  SubSeq(sorted, 1, IF Len(sorted) < n THEN Len(sorted) ELSE n)

RECURSIVE Flatten(_)
\* all_skills: the skills lists of the rows, one after the other (lines 154-155)
Flatten(lists) ==
    IF lists = << >> THEN << >> ELSE Head(lists) \o Flatten(Tail(lists))

\* lines 257-260 for one skills_list: what the two loops add to cell [a][b]
PairIncrements(skills_list, top, a, b) ==
    IF a \notin Range(top) \/ b \notin Range(top) THEN 0
    ELSE Cardinality({ij \in {i \in 1..Len(skills_list) : skills_list[i] = a}
                              \X {j \in 1..Len(skills_list) : skills_list[j] = b} :
                         ij[1] <= ij[2]})

\* The postings a store file can hold.
StoredPostings == {
    [job_id |-> "job-1", company |-> "Acme", full_description |-> "Python and SQL"],
    [job_id |-> "job-2", company |-> "Globex", full_description |-> "SQL, React, Python"],
    [job_id |-> "job-3", company |-> "Acme", full_description |-> "Django"],
    [job_id |-> "job-4", company |-> "Hooli", full_description |-> "Great team, html and css"],
    [job_id |-> "job-5", company |-> "Initech", full_description |-> ""],
    [job_id |-> "job-6", company |-> "Umbrella", full_description |->
        "python java ruby php swift kotlin sql react node django flask vue rails"] }

\* lines 59-61: the mask of one row whose description is a str
MatchesDomain(desc, domain_skills) ==
    LET lowered == Lowercase(desc.val) IN
    \E k \in 1..Len(domain_skills) : Contains(lowered, domain_skills[k])

\* what line 111 and line 60 compute for each stored description, whatever the
\* file it comes in; main() always passes DOMAIN_SKILLS[domain] (line 128)
StoredDescriptions == {ReadCsvCell(p.full_description) : p \in StoredPostings}
ExtractedFrom == [d \in StoredDescriptions |-> extract_skills(d)]
DomainMask == [d \in {x \in StoredDescriptions : IsStr(x)} |->
                  [domain \in Range(DOMAIN_NAMES) |-> MatchesDomain(d, DOMAIN_SKILLS[domain])]]

\* lines 53-62; desc.lower() is an AttributeError when a description is not a
\* str
filter_jobs_by_domain(rows, domain, domain_skills) ==
    IF domain = "All Domains" \/ domain_skills = << >>
    THEN [raised |-> FALSE, rows |-> rows]
    ELSE IF \E r \in Range(rows) : ~IsStr(r.full_description)
    THEN [raised |-> TRUE, rows |-> << >>]
    ELSE [raised |-> FALSE,
          rows |-> SelectSeq2(rows, {r \in Range(rows) :
                                      DomainMask[r.full_description][domain]})]

\* local_llm.py lines 87-90: what requests.post and raise_for_status can do
LLM_OUTCOMES == {"ok", "ConnectionError", "HTTPError", "ReadTimeout"}

\* the text area of line 337
Questions == {"", "   ", "I know Python and SQL. What should I learn next?"}

\* the file the dashboard finds: none, or a file the collector wrote, of up to
\* MaxJobs rows
MaxJobs == 2

StoreOf(postings) ==
    [exists |-> TRUE,
     columns |-> JOB_COLUMNS \cup {"dataset_last_updated_utc"},
     rows |-> [i \in 1..Len(postings) |->
                 [job_id |-> postings[i].job_id, title |-> "Engineer",
                  company |-> postings[i].company, category |-> "Back-End Programming",
                  full_description |-> postings[i].full_description,
                  fetched_at |-> 0, dataset_last_updated_utc |-> 0]]]

HeaderOnlyStore ==
    [exists |-> TRUE, columns |-> {"dataset_last_updated_utc"}, rows |-> << >>]

DashStores ==
    {NoStore, HeaderOnlyStore} \cup
    {StoreOf(p) : p \in UNION {[1..n -> StoredPostings] : n \in 1..MaxJobs}}

DashIdle ==
    /\ at = "load"
    /\ df = << >>
    /\ selected_domain = "All Domains"
    /\ filtered_df = << >>
    /\ top_12_skills = << >>
    /\ co_occurrence = << >>
    /\ posting = 0
    /\ ai_query = ""
    /\ ai_response = ""
    /\ llm_result = "not called"
    /\ shown = {}
    /\ exception = ""

\* lines 86-103: session state, load_data and the empty check
LoadData ==
    /\ at = "load"
    /\ IF ~store.exists
       THEN \* FileNotFoundError, caught: an empty frame, and main returns
            /\ df' = << >>
            /\ shown' = shown \cup {"error: No data found"}
            /\ at' = "done"
            /\ UNCHANGED exception
       ELSE IF "published_date" \notin store.columns
       THEN \* line 37 raises KeyError, which load_data does not catch
            /\ exception' = "KeyError"
            /\ at' = "done"
            /\ UNCHANGED <<df, shown>>
       ELSE /\ df' = [i \in 1..Len(store.rows) |-> ReadCsvRow(store.rows[i])]
            /\ IF store.rows = << >>
               THEN shown' = shown \cup {"error: No data found"} /\ at' = "done"
               ELSE shown' = shown /\ at' = "extract"
            /\ UNCHANGED exception
    /\ UNCHANGED <<selected_domain, filtered_df, top_12_skills, co_occurrence, posting,
                   ai_query, ai_response, llm_result>>
    /\ UNCHANGED notDash

\* lines 109-111: the skills column
ExtractAll ==
    /\ at = "extract"
    /\ LET returned == [i \in 1..Len(df) |-> ExtractedFrom[df[i].full_description]] IN
       \E lists \in [1..Len(df) -> UNION {returned[i] : i \in 1..Len(df)}] :
          /\ \A i \in 1..Len(df) : lists[i] \in returned[i]
          /\ df' = [i \in 1..Len(df) |->
                      [job_id |-> df[i].job_id, company |-> df[i].company,
                       full_description |-> df[i].full_description, skills |-> lists[i]]]
    /\ at' = "select"
    /\ UNCHANGED <<selected_domain, filtered_df, top_12_skills, co_occurrence, posting,
                   ai_query, ai_response, llm_result, shown, exception>>
    /\ UNCHANGED notDash

\* lines 121-167 and 251-254: the domain the user selects, the filter, the
\* metrics, all_skills, the top 12 and the zeroed matrix
SelectDomain ==
    /\ at = "select"
    /\ \E domain \in Range(DOMAIN_NAMES) :
        LET kept == filter_jobs_by_domain(df, domain, DOMAIN_SKILLS[domain])
            all_skills == Flatten([i \in 1..Len(kept.rows) |-> kept.rows[i].skills])
            top == MostCommon(all_skills, TOP_N)
        IN  /\ selected_domain' = domain
            /\ IF kept.raised
               THEN /\ exception' = "AttributeError"
                    /\ at' = "done"
                    /\ UNCHANGED <<filtered_df, top_12_skills, co_occurrence>>
               ELSE IF kept.rows = << >>
               THEN \* line 150 divides by filtered_df['company'].nunique()
                    /\ exception' = "ZeroDivisionError"
                    /\ at' = "done"
                    /\ filtered_df' = kept.rows
                    /\ UNCHANGED <<top_12_skills, co_occurrence>>
               ELSE /\ filtered_df' = kept.rows
                    /\ exception' = exception
                    /\ IF all_skills # << >>
                       THEN /\ top_12_skills' = top
                            /\ co_occurrence' =
                                 [a \in Range(top) |-> [b \in Range(top) |-> 0]]
                            /\ at' = "pass"
                       ELSE /\ UNCHANGED <<top_12_skills, co_occurrence>>
                            /\ at' = "sidebar"
    /\ UNCHANGED <<df, posting, ai_query, ai_response, llm_result, shown>>
    /\ UNCHANGED notDash

\* lines 256-260: the aggregation pass takes the next skills_list
AggregatePosting ==
    /\ at = "pass"
    /\ posting < Len(filtered_df)
    /\ LET skills_list == filtered_df[posting + 1].skills IN
       co_occurrence' =
           [a \in Range(top_12_skills) |-> [b \in Range(top_12_skills) |->
               co_occurrence[a][b] + PairIncrements(skills_list, top_12_skills, a, b)]]
    /\ posting' = posting + 1
    /\ UNCHANGED <<at, df, selected_domain, filtered_df, top_12_skills,
                   ai_query, ai_response, llm_result, shown, exception>>
    /\ UNCHANGED notDash

\* lines 262-322: the pass is over; the chart, the listing and the footer
FinishPass ==
    /\ at = "pass"
    /\ posting = Len(filtered_df)
    /\ at' = "sidebar"
    /\ UNCHANGED <<df, selected_domain, filtered_df, top_12_skills, co_occurrence, posting,
                   ai_query, ai_response, llm_result, shown, exception>>
    /\ UNCHANGED notDash

\* lines 337-375 with the button not pressed
SidebarIdle ==
    /\ at = "sidebar"
    /\ \E q \in Questions : ai_query' = q
    /\ shown' = IF ai_response # "" THEN shown \cup {"success: Strategic Advice"} ELSE shown
    /\ at' = "done"
    /\ UNCHANGED <<df, selected_domain, filtered_df, top_12_skills, co_occurrence, posting,
                   ai_response, llm_result, exception>>
    /\ UNCHANGED notDash

\* lines 337-375 with "Ask AI" pressed: the question is blank, or ask_llm is
\* called and returns the advice or raises
AskAI ==
    /\ at = "sidebar"
    /\ \E q \in Questions, llm \in LLM_OUTCOMES :
        /\ ai_query' = q
        /\ IF Strip(q) = ""
           THEN /\ shown' = shown \cup {"warning: Please enter a question."}
                /\ UNCHANGED <<ai_response, llm_result, exception>>
           ELSE /\ llm_result' = llm
                /\ IF llm = "ok"
                   THEN /\ ai_response' = "advice"
                        /\ shown' = shown \cup {"success: Strategic Advice"}
                        /\ UNCHANGED exception
                   ELSE \* no try around line 367: the exception ends the run
                        /\ exception' = llm
                        /\ UNCHANGED <<ai_response, shown>>
    /\ at' = "done"
    /\ UNCHANGED <<df, selected_domain, filtered_df, top_12_skills, co_occurrence, posting>>
    /\ UNCHANGED notDash

\* ------------------------------------------------------------ specifications

ClassifyIdle == title = "" /\ category = "" /\ clean_desc = "" /\ is_tech = << >>
ExtractIdle == description = PyStr("") /\ found = << >>

CollectIdle == CollectAt(NoStore)

\* the collector
Init == InitCollect /\ ClassifyIdle /\ ExtractIdle /\ DashIdle
Next ==
    \/ StartCycle
    \/ RequestSucceeds
    \/ RequestFails
    \/ Sleep
    \/ ProcessFeed
    \/ FetchFailed
Spec == Init /\ [][Next]_vars

\* requests.get returns or raises within its timeout of 30 s and time.sleep
\* returns, so a started fetch_with_retry call keeps taking its steps
FairSpec ==
    /\ Spec
    /\ WF_vars(RequestSucceeds \/ RequestFails)
    /\ WF_vars(Sleep)

\* is_tech_job on its own
ClassifyNext == Classify
ClassifyInit == InitClassify /\ ExtractIdle /\ CollectIdle /\ DashIdle
SpecClassify == ClassifyInit /\ [][ClassifyNext]_vars

\* extract_skills on its own
ExtractNext == Extract
ExtractInit == InitExtract /\ ClassifyIdle /\ CollectIdle /\ DashIdle
SpecExtract == ExtractInit /\ [][ExtractNext]_vars

\* one run of the dashboard script on a file the collector left
InitDashboard ==
    /\ \E file \in DashStores : CollectAt(file)
    /\ ClassifyIdle /\ ExtractIdle /\ DashIdle
DashboardNext ==
    \/ LoadData
    \/ ExtractAll
    \/ SelectDomain
    \/ AggregatePosting
    \/ FinishPass
    \/ SidebarIdle
    \/ AskAI
SpecDashboard == InitDashboard /\ [][DashboardNext]_vars

\* ------------------------------------------------------------------ claims

C7_WholeWordExtraction ==
    (found # << >> /\ IsStr(description)) =>
        LET text == NormalizeText(description.val)
            n == Len(text)
            edgeOrNonWord(p) == p < 1 \/ p > n \/ ~IsWordChar(CharAt(text, p))
            occurs(t) == \E i \in 1..n :
                            /\ i + Len(t) - 1 <= n
                            /\ SubSeq(text, i, i + Len(t) - 1) = t
                            /\ edgeOrNonWord(i - 1)
                            /\ edgeOrNonWord(i + Len(t))
        IN  /\ \A k \in 1..Len(FLAT_SKILLS) :
                  (FLAT_SKILLS[k] \in Range(found[1])) <=> occurs(FLAT_SKILLS[k])
            /\ description.val = "I use JavaScript daily" => Range(found[1]) = {"javascript"}
            /\ description.val = "Python/Django stack" => Range(found[1]) = {"python", "django"}

\* C7 witness: "javascript" was extracted from a text where "java" is followed
\* by a word character, and "java" was not.
C7_Witness ==
    /\ found # << >>
    /\ description = PyStr("I use JavaScript daily")
    /\ Range(found[1]) = {"javascript"}

\* C3 (as claimed): no two rows of the persisted store carry the same job_id.
C3_UniqueJobIds ==
    store.exists =>
        \A i, j \in 1..Len(store.rows) :
            store.rows[i].job_id = store.rows[j].job_id => i = j

C9_BoundedRetry ==
    /\ [](/\ requests <= 3
          /\ pc = "request" => (requests = attempt /\ slept = 5 * attempt)
          /\ pc = "returned" => (requests = attempt + 1 /\ slept = 5 * attempt)
          /\ pc = "sleep" => (attempt < 2 /\ requests = attempt + 1 /\ slept = 5 * attempt)
          /\ pc = "raised" => (requests = 3 /\ slept = 10))
    /\ [][pc = "returned" => requests' = requests]_vars
    /\ (pc = "request") ~> (pc \in {"returned", "raised"})

\* C9 witness: the call raised after its third failed attempt, having waited
\* twice.
C9_Witness == pc = "raised" /\ requests = 3 /\ slept = 10 /\ attempt = 2

\* C10 (as claimed): an existing store file has every required column and one
\* dataset_last_updated_utc value on all rows.
C10_StoreSchemaKept ==
    store.exists =>
        /\ {"job_id", "title", "company", "category", "full_description",
            "published_date", "link", "fetched_at", "dataset_last_updated_utc"}
               \subseteq store.columns
        /\ \A i, j \in 1..Len(store.rows) :
              store.rows[i].dataset_last_updated_utc = store.rows[j].dataset_last_updated_utc

\* C1 (as claimed): after the aggregation pass the matrix is symmetric on the
\* restriction set.
C1_CoOccurrenceSymmetric ==
    at \in {"sidebar", "done"} =>
        \A a, b \in Range(top_12_skills) : co_occurrence[a][b] = co_occurrence[b][a]

\* C2 (as claimed): no posting increments a diagonal cell, and as long as every
\* posting aggregated so far holds at most one skill of the restriction set
\* the whole matrix is zero.
C2_NoSelfPairs ==
    /\ \A a \in Range(top_12_skills) : co_occurrence[a][a] = 0
    /\ (\A k \in 1..posting :
           Cardinality(Range(filtered_df[k].skills) \cap Range(top_12_skills)) <= 1)
          => \A a, b \in Range(top_12_skills) : co_occurrence[a][b] = 0

\* C5 (as claimed): when the call of the inference service fails, the failure
\* is shown as an error on the page and the run ends without an unhandled
\* exception.
C5_AdviceFailureReported ==
    llm_result \notin {"not called", "ok"} =>
        /\ exception = ""
        /\ \E m \in shown : SubSeq(m, 1, 6) = "error:"

\* C8 (as claimed): every skill term of the selected category is a term of
\* FLAT_SKILLS, once.
C8_FlatSkillsCoverDomains ==
    /\ \A k \in 1..Len(DOMAIN_SKILLS[selected_domain]) :
          \E m \in 1..Len(FLAT_SKILLS) : FLAT_SKILLS[m] = DOMAIN_SKILLS[selected_domain][k]
    /\ \A m, n \in 1..Len(FLAT_SKILLS) : FLAT_SKILLS[m] = FLAT_SKILLS[n] => m = n

\* C11 (as claimed): a posting whose full_description is not a str gets no
\* skills from extract_skills, and for every domain the user can select
\* filter_jobs_by_domain returns without raising and keeps no such posting
\* when the domain restricts the listing.
C11_MissingDescriptionNeverRaises ==
    /\ \A i \in 1..Len(df) :
          (~IsStr(df[i].full_description) /\ "skills" \in DOMAIN df[i])
              => df[i].skills = << >>
    /\ exception # "AttributeError"
    /\ selected_domain # "All Domains"
          => \A k \in 1..Len(filtered_df) : IsStr(filtered_df[k].full_description)

\* C12 (as claimed): for every term t of FLAT_SKILLS, terms holding
\* punctuation such as "c++" and "next.js" included, extract_skills of the
\* description that is exactly t returns a list holding t.
C12_EveryTermDetectable ==
    (found # << >> /\ IsStr(description)
        /\ \E k \in 1..Len(FLAT_SKILLS) : FLAT_SKILLS[k] = description.val)
      => description.val \in Range(found[1])

=============================================================================
